---- MODULE Spec2Model ----
(***************************************************************************)
(* Model of the Miscreated RCON client, src/misrcon/misrcon.py:            *)
(* MiscreatedRCON.multi_rcon, send_command, do_authentication,             *)
(* challenge_rcon, exec_cmd, exec_cmd_params, is_bad_results_11 and        *)
(* is_cmd_success.  One client runs one multi_rcon call; every transport   *)
(* round trip (command, challenge, authenticate) is one step whose server  *)
(* outcome is chosen nondeterministically.                                 *)
(*                                                                         *)
(* Python strings are sequences of one-character strings.  A Python value  *)
(* is a record [kind, text]: kind "str" carries the text, the kinds        *)
(* "None", "False", "True" and "int0" (the integer 0) carry none.          *)
(***************************************************************************)
EXTENDS Integers, Sequences, FiniteSets, TLC

\* ------------------------------------------------------------------ bounds
MaxRetry == 2     \* largest challenge retry budget a caller passes
MaxCmds  == 2     \* longest commands list passed to multi_rcon
MaxCount == 4     \* the command-invocation counter saturates here

\* ---------------------------------------------------------- Python values
PyStr(s) == [kind |-> "str", text |-> s]
PyNone   == [kind |-> "None", text |-> <<>>]
PyFalse  == [kind |-> "False", text |-> <<>>]
PyTrue   == [kind |-> "True", text |-> <<>>]
PyInt0   == [kind |-> "int0", text |-> <<>>]
PyBool(b) == IF b THEN PyTrue ELSE PyFalse

\* ------------------------------------------------------ literals of the code
ChallengeMarker == <<"[","W","h","i","t","e","l","i","s","t","]"," ","I","n","v","a","l","i","d"," ","c","o","m","m","a","n","d",":"," ","c","h","a","l","l","e","n","g","e">>
bad_results_11 == <<"[","W","h","i","t","e","l","i","s","t","]">>
IllegalCommand == <<"I","l","l","e","g","a","l"," ","C","o","m","m","a","n","d">>
CouldNotAuthenticate == <<"C","o","u","l","d"," ","n","o","t"," ","a","u","t","h","e","n","t","i","c","a","t","e"," ","w","i","t","h"," ","R","C","O","N">>
NoCommandPassed == <<"N","o"," ","c","o","m","m","a","n","d"," ","w","a","s"," ","p","a","s","s","e","d">>
ListNotPassed == <<"L","i","s","t"," ","n","o","t"," ","p","a","s","s","e","d"," ","f","o","r"," ","c","o","m","m","a","n","d","s">>

\* ------------------------------------------------------------ environment
\* Raw texts the server answers a command with (before exec_cmd strips).
WhitelistNo == <<"[","W","h","i","t","e","l","i","s","t","]"," ","n","o">>
ServerTexts ==
    { ChallengeMarker, bad_results_11, WhitelistNo, IllegalCommand,
      <<>>, <<"O","K">>, <<" ","O","K"," ">>, <<"l","i","s","t">> }

\* Outcomes of one command round trip: a text, an OSError (connection
\* refused, socket timeout), or an xmlrpc.client.Error (Fault, ProtocolError),
\* which is not an OSError.
CmdOutcomes ==
    [kind : {"text"}, raw : ServerTexts]
      \cup { [kind |-> "OSError", raw |-> <<>>], [kind |-> "Error", raw |-> <<>>] }

\* The keyword arguments of the constructor that are present.
RequiredKeys == {"host", "port", "password"}
KwargsSets == SUBSET RequiredKeys

\* __init__: self.server stays None when a required value is missing, and the
\* object is constructed all the same.
Server(kw) == IF RequiredKeys \subseteq kw THEN "ServerProxy" ELSE "None"

\* self.password = kwargs.get('password', False)
Password(kw) == IF "password" \in kw THEN "secret" ELSE "False"

\* What a command round trip of a client can end with: without a server
\* proxy there is no round trip.
CmdOutcomesOf(kw) ==
    IF Server(kw) = "None" THEN { [kind |-> "NoServer", raw |-> <<>>] } ELSE CmdOutcomes

\* Outcomes of one challenge round trip:
\* a numeric token, a text float() rejects, or any exception of the call.
Tokens == {"1234", "5678"}
ChallengeOutcomes ==
    [kind : {"numeric"}, token : Tokens]
      \cup { [kind |-> "nonnumeric", token |-> "None"],
             [kind |-> "exception", token |-> "None"] }

\* Outcomes of one authenticate round trip.
AuthOutcomes ==
    { "authorized", "not authorized", "Illegal Command", "nonstr",
      "timed out", "OSError", "Error" }

\* Commands a caller passes.
CmdStatus == <<"s","t","a","t","u","s">>
CmdSay    == <<"s","a","y"," ","h","i"," ","a","l","l">>
CommandValues == { PyStr(CmdStatus), PyStr(CmdSay), PyNone }

RECURSIVE SeqsUpTo(_, _)
SeqsUpTo(S, n) ==
    IF n = 0 THEN { <<>> }
    ELSE LET shorter == SeqsUpTo(S, n - 1)
         IN  shorter \cup { Append(s, x) : s \in { t \in shorter : Len(t) = n - 1 }, x \in S }

\* The commands argument of multi_rcon: a list, or something that is not a
\* list (a tuple of commands, or the default None).
CommandsArgs ==
    [type : {"list"}, items : SeqsUpTo(CommandValues, MaxCmds)]
      \cup [type : {"tuple"}, items : { <<PyStr(CmdStatus)>>, <<PyStr(CmdStatus), PyStr(CmdSay)>> }]
      \cup { [type |-> "NoneType", items |-> <<>>] }

RetryBudgets == 0..MaxRetry

\* ------------------------------------------------------- string functions
IsSpace(c) == c = " "

RECURSIVE LStrip(_)
LStrip(s) == IF s # <<>> /\ IsSpace(Head(s)) THEN LStrip(Tail(s)) ELSE s

RECURSIVE RStrip(_)
RStrip(s) ==
    IF s # <<>> /\ IsSpace(s[Len(s)]) THEN RStrip(SubSeq(s, 1, Len(s) - 1)) ELSE s

\* str.strip()
Strip(s) == RStrip(LStrip(s))

\* value[:n]
Slice(s, n) == IF Len(s) <= n THEN s ELSE SubSeq(s, 1, n)

\* Python's `a in b` for two strings: a is a contiguous part of b.
StrIn(a, b) ==
    \E i \in 0..(Len(b) - Len(a)) : SubSeq(b, i + 1, i + Len(a)) = a

\* index of the first space of s, 0 when there is none
RECURSIVE FirstSpace(_, _)
FirstSpace(s, i) ==
    IF i > Len(s) THEN 0
    ELSE IF s[i] = " " THEN i ELSE FirstSpace(s, i + 1)

\* cmd_list = command.split(' '); cmd = cmd_list.pop(0)
SplitCmd(command) ==
    LET i == FirstSpace(command, 1)
    IN  IF i = 0 THEN command ELSE SubSeq(command, 1, i - 1)

\* params = ' '.join(cmd_list) if cmd_list else ''
SplitParams_mut(command) ==
    LET i == FirstSpace(command, 1)
        rest == SubSeq(command, i + 1, Len(command))
    IN  IF i = 0 THEN <<>> ELSE SplitCmd(rest)
SplitParams(command) ==
    LET i == FirstSpace(command, 1)
    IN  IF i = 0 THEN <<>> ELSE SubSeq(command, i + 1, Len(command))

\* ------------------------------------------------------------ classifiers
is_cmd_success_mut(result) == TRUE

\* is_cmd_success: `result in ('[Whitelist] Invalid command: challenge', None)`
is_cmd_success(result) ==
    ~ (result = PyStr(ChallengeMarker) \/ result = PyNone)

is_bad_results_11_mut(value, success) ==
    [raised |-> value.kind # "str", value |-> success]

\* is_bad_results_11: raised is TRUE when len(value) raises TypeError (value
\* is not a string); otherwise value is the returned flag.  bad_results_11 is
\* a string in the code, so `value in bad_results_11` is a substring test.
is_bad_results_11(value, success) ==
    LET v == IF value.kind = "str" /\ value.text # <<>>
             THEN PyStr(Slice(value.text, 11)) ELSE value
    IN  IF v.kind # "str" THEN [raised |-> TRUE, value |-> success]
        ELSE IF Len(v.text) = 0 THEN [raised |-> FALSE, value |-> success]
        ELSE IF StrIn(v.text, bad_results_11) THEN [raised |-> FALSE, value |-> FALSE]
        ELSE [raised |-> FALSE, value |-> success]

\* -------------------------------------------------------------- transport
\* The exception that leaves exec_cmd and exec_cmd_params, which catch
\* OSError only: the AttributeError of `self.server.__getattr__` on a client
\* whose server is None, or the xmlrpc.client.Error of the round trip.
ExecFault(outcome) ==
    IF outcome.kind = "NoServer" THEN "AttributeError" ELSE "Error"

\* exec_cmd: the three exits of one command round trip without parameter.
\* timeout is the process-wide socket default timeout the call leaves, nargs
\* the number of arguments the remote operation is called with.
exec_cmd(outcome) ==
    IF outcome.kind = "text"
    THEN [raised |-> FALSE, exc |-> "none", cmd_result |-> PyStr(Strip(outcome.raw)),
          ok |-> TRUE, timeout |-> "None", nargs |-> 0]
    ELSE IF outcome.kind = "OSError"
    THEN [raised |-> FALSE, exc |-> "none", cmd_result |-> PyFalse,
          ok |-> FALSE, timeout |-> "5", nargs |-> 0]
    ELSE [raised |-> TRUE, exc |-> ExecFault(outcome), cmd_result |-> PyNone,
          ok |-> FALSE, timeout |-> "5", nargs |-> 0]

\* exec_cmd_params: the same with one string parameter.
exec_cmd_params(outcome) ==
    IF outcome.kind = "text"
    THEN [raised |-> FALSE, exc |-> "none", cmd_result |-> PyStr(Strip(outcome.raw)),
          ok |-> TRUE, timeout |-> "None", nargs |-> 1]
    ELSE IF outcome.kind = "OSError"
    THEN [raised |-> FALSE, exc |-> "none", cmd_result |-> PyFalse,
          ok |-> FALSE, timeout |-> "5", nargs |-> 1]
    ELSE [raised |-> TRUE, exc |-> ExecFault(outcome), cmd_result |-> PyNone,
          ok |-> FALSE, timeout |-> "5", nargs |-> 1]

\* send_command's choice of the call shape: `if params: ... else: ...`
Invoke(command, outcome) ==
    IF SplitParams(command) # <<>> THEN exec_cmd_params(outcome) ELSE exec_cmd(outcome)

RetryAfterChallenge_mut(r, numeric) == r - 1

\* challenge_rcon's loop counter after one iteration:
\* `retry = 0` on a numeric challenge, then `retry -= 1`.
RetryAfterChallenge(r, numeric) == (IF numeric THEN 0 ELSE r) - 1

\* challenge_rcon from the authenticate call to its return: ret is the
\* returned value, exc the exception that leaves challenge_rcon.
AuthenticateResult(outcome) ==
    IF outcome = "authorized"
    THEN [exc |-> "none", ret |-> "True", timeout |-> "None"]
    ELSE IF outcome \in {"not authorized", "Illegal Command"}
    THEN [exc |-> "none", ret |-> "False", timeout |-> "None"]
    ELSE IF outcome = "nonstr"
    THEN [exc |-> "TypeError", ret |-> "False", timeout |-> "None"]
    ELSE IF outcome = "timed out"
    THEN [exc |-> "OSError timed out", ret |-> "False", timeout |-> "5"]
    ELSE IF outcome = "OSError"
    THEN [exc |-> "OSError", ret |-> "False", timeout |-> "5"]
    ELSE [exc |-> "Error", ret |-> "False", timeout |-> "5"]

\* do_authentication around a challenge_rcon that returned r.ret or raised
\* r.exc: the pair it returns, or the exception that reaches send_command
\* (unpacking the None it returns after an OSError that is no timeout is a
\* TypeError).
do_authentication(r) ==
    IF r.exc = "none" THEN [exc |-> "none", challenge |-> r.ret, authenticated |-> TRUE]
    ELSE IF r.exc = "OSError timed out"
    THEN [exc |-> "none", challenge |-> "False", authenticated |-> FALSE]
    ELSE IF r.exc = "OSError"
    THEN [exc |-> "TypeError", challenge |-> "None", authenticated |-> FALSE]
    ELSE [exc |-> r.exc, challenge |-> "None", authenticated |-> FALSE]

\* `if auth_attempt > 3`
AuthAttemptCap == 3

RetryDone_mut(s, cmd_result) == s /\ Strip(cmd_result.text) # IllegalCommand

\* while not success: the loop ends on the flag of is_cmd_success alone,
\* whatever the text is
RetryDone(s, cmd_result) == s

\* ------------------------------------------------------------------ state
VARIABLES
    commands,       \* multi_rcon's commands argument
    retry,          \* multi_rcon's retry argument
    pc,             \* where the program is
    raised,         \* the exception that ended the call, "none" otherwise
    idx,            \* multi_rcon: position in commands
    result,         \* multi_rcon: result
    auth_attempt,   \* send_command locals
    authenticated,
    cmd_result,
    success,
    status,
    ch_retry,       \* challenge_rcon: retry
    challenge,      \* challenge_rcon: challenge ("unbound" before the loop)
    hs_result,      \* what do_authentication returned to send_command
    timeout,        \* socket.setdefaulttimeout's process-wide value
    n_cmd,          \* command invocations of this send_command (saturating)
    parity,         \* the same number modulo 2, which never saturates
    first_marker,   \* the optimistic response was the challenge marker
    n_hs,           \* do_authentication calls of this send_command
    n_chal,         \* challenge calls of this handshake
    chal_failed,    \* some challenge call of this send_command gave no token
    n_auth,         \* authenticate calls of this send_command
    n_authorized,   \* "authorized" answers of this send_command
    transport_used, \* some transport call was made since multi_rcon began
    called,         \* the commands send_command was called with, in order
    kwargs,         \* the keyword arguments the client was constructed with
    spc,            \* two threads, one client each: where each is in a call
    seen,           \* the timeout in force when each thread's call connected
    served,         \* what the last challenge call of this handshake gave
    credential,     \* the credential this handshake submitted
    first_plain,    \* the optimistic response was a text that is neither the
                    \* marker, nor has the bad prefix, nor is Illegal Command
    first_illegal,  \* the optimistic response was Illegal Command
    call            \* name and arguments of the last command invocation

inputs == <<commands, retry, kwargs>>
threads == <<spc, seen>>
batch  == <<idx, result>>
locals == <<auth_attempt, authenticated, cmd_result, success, status>>
hshake == <<ch_retry, challenge, hs_result, n_hs, n_chal, served, credential>>
counts == <<n_cmd, parity, first_marker, first_plain, first_illegal, call, chal_failed, n_auth,
            n_authorized>>
vars == <<commands, retry, pc, raised, idx, result, auth_attempt, authenticated,
          cmd_result, success, status, ch_retry, challenge, hs_result, timeout,
          n_cmd, parity, first_marker, n_hs, n_chal, chal_failed, n_auth, n_authorized,
          transport_used, called, kwargs, spc, seen, served, credential,
          first_plain, first_illegal, call>>

\* Two threads of one process, each with a client of its own.
Threads == {1, 2}
TransportOps == {"exec_cmd", "exec_cmd_params", "challenge", "authenticate"}
IdleThread == [op |-> "none", at |-> "idle"]

PyDict == [kind |-> "dict", text |-> <<>>]
EmptyDict == [k \in {} |-> PyNone]
DictSet_mut(d, k, v) ==
    [x \in (DOMAIN d) \cup {k} |-> IF x \in DOMAIN d THEN d[x] ELSE v]

\* result['returned'][command] = ...: a key that is there is overwritten
DictSet(d, k, v) == [x \in (DOMAIN d) \cup {k} |-> IF x = k THEN v ELSE d[x]]

NewResult_mut == [success |-> PyTrue, returned |-> EmptyDict]

\* result = dict(); result['success'] = None; result['returned'] = dict()
NewResult == [success |-> PyNone, returned |-> EmptyDict]

StoreSuccess_mut(st) == st.success

\* result['success'] = True, whatever send_command returned
StoreSuccess(st) == PyTrue

NoCredential == [md5 |-> <<>>]
NoCall == [name |-> <<>>, args |-> <<>>]

Authentication_mut(ch, pw) == <<pw>>

\* authentication = f"{challenge}:{self.password}"
Authentication(ch, pw) == <<ch, ":", pw>>

\* hashlib.md5(authentication.encode('utf-8')).hexdigest(): the digest is
\* kept as the text it was made of (no two texts of the model collide).
Md5(text) == [md5 |-> text]

\* self.server.__getattr__(cmd)() and self.server.__getattr__(cmd)(params)
CallOf(command, nargs) ==
    [name |-> SplitCmd(command),
     args |-> IF nargs = 0 THEN <<>> ELSE <<SplitParams(command)>>]

NoHsResult == [challenge |-> "None", authenticated |-> FALSE]
Inc(n) == IF n < MaxCount THEN n + 1 ELSE n

\* the command send_command is running
Command == commands.items[idx]

Init ==
    /\ commands \in CommandsArgs
    /\ kwargs \in KwargsSets
    /\ spc = [t \in Threads |-> IdleThread]
    /\ seen = [t \in Threads |-> "-"]
    /\ retry \in RetryBudgets
    /\ pc = "multi_rcon"
    /\ raised = "none"
    /\ idx = 0
    /\ result = NewResult
    /\ auth_attempt = 0
    /\ authenticated = FALSE
    /\ cmd_result = PyNone
    /\ success = FALSE
    /\ status = [success |-> PyNone, returned |-> PyDict]
    /\ ch_retry = 0
    /\ challenge = "unbound"
    /\ hs_result = NoHsResult
    /\ timeout = "None"
    /\ n_cmd = 0
    /\ parity = 0
    /\ first_marker = FALSE
    /\ n_hs = 0
    /\ n_chal = 0
    /\ chal_failed = FALSE
    /\ n_auth = 0
    /\ n_authorized = 0
    /\ transport_used = FALSE
    /\ called = <<>>
    /\ served = "None"
    /\ credential = NoCredential
    /\ first_plain = FALSE
    /\ first_illegal = FALSE
    /\ call = NoCall

\* an exception leaves send_command and multi_rcon
Raise(exc) == pc' = "raised" /\ raised' = exc

\* send_command calls do_authentication, which calls challenge_rcon: with no
\* iteration of its loop, `None in (authentication, challenge)` reads the
\* unbound local challenge.
EnterHandshake ==
    /\ n_hs' = n_hs + 1
    /\ n_chal' = 0
    /\ ch_retry' = retry
    /\ challenge' = "unbound"
    /\ hs_result' = NoHsResult
    /\ served' = "None"
    /\ credential' = NoCredential
    /\ IF retry > 0 THEN pc' = "challenge" /\ raised' = raised
       ELSE Raise("UnboundLocalError")

\* do_authentication and challenge_rcon have returned: their frame is gone.
LeaveHandshake ==
    /\ ch_retry' = 0
    /\ challenge' = "unbound"
    /\ n_chal' = 0
    /\ served' = "None"
    /\ credential' = NoCredential
    /\ UNCHANGED <<hs_result, n_hs>>

is_list_mut(c) == c.type \in {"list", "tuple"}

\* multi_rcon's `type(commands) is not list`, negated
is_list(c) == c.type = "list"

\* ---------------------------------------------------------------- actions
\* multi_rcon, lines 207-218: the type test and the start of the iteration.
multi_rcon ==
    /\ pc = "multi_rcon"
    /\ IF ~is_list(commands)
       THEN /\ result' = [success |-> PyFalse,
                          returned |-> DictSet(EmptyDict, PyInt0, PyStr(ListNotPassed))]
            /\ pc' = "done"
            /\ idx' = idx
       ELSE IF Len(commands.items) = 0
       THEN /\ pc' = "done"
            /\ UNCHANGED batch
       ELSE /\ idx' = 1
            /\ pc' = "send_command"
            /\ result' = result
    /\ UNCHANGED <<inputs, threads, called, raised, locals, hshake, counts, timeout, transport_used>>

\* send_command, lines 236-258: the missing command and the initial locals.
send_command ==
    /\ pc = "send_command"
    /\ IF Command = PyNone
       THEN /\ status' = [success |-> PyFalse, returned |-> PyStr(NoCommandPassed)]
            /\ pc' = "send_command_return"
            /\ UNCHANGED <<auth_attempt, authenticated, cmd_result, success>>
       ELSE /\ auth_attempt' = 0
            /\ authenticated' = FALSE
            /\ cmd_result' = PyNone
            /\ status' = [success |-> PyNone, returned |-> PyDict]
            /\ success' = FALSE
            /\ pc' = "exec_cmd_first"
    /\ called' = Append(called, Command)
    /\ UNCHANGED <<inputs, threads, raised, batch, hshake, counts, timeout, transport_used>>

\* send_command, lines 262-290: the optimistic attempt, its classification,
\* and either the return or the entry into the authenticated retry loop.
exec_cmd_first ==
    /\ pc = "exec_cmd_first"
    /\ \E o \in CmdOutcomesOf(kwargs) :
         LET r == Invoke(Command.text, o)
             s == is_cmd_success(r.cmd_result)
             b == is_bad_results_11(r.cmd_result, s)
         IN  /\ timeout' = r.timeout
             /\ n_cmd' = Inc(n_cmd)
             /\ parity' = 1 - parity
             /\ transport_used' = (o.kind # "NoServer")
             /\ first_marker' = (~r.raised /\ r.cmd_result = PyStr(ChallengeMarker))
             /\ first_plain' = /\ r.cmd_result.kind = "str"
                               /\ r.cmd_result.text # ChallengeMarker
                               /\ Slice(r.cmd_result.text, 11) # bad_results_11
                               /\ r.cmd_result.text # IllegalCommand
             /\ first_illegal' = /\ r.cmd_result.kind = "str"
                                 /\ Strip(r.cmd_result.text) = IllegalCommand
             /\ call' = CallOf(Command.text, r.nargs)
             /\ IF r.raised
                THEN /\ Raise(r.exc)
                     /\ UNCHANGED <<locals, hshake>>
                ELSE IF b.raised
                THEN /\ Raise("TypeError")
                     /\ cmd_result' = r.cmd_result
                     /\ authenticated' = r.ok
                     /\ success' = s
                     /\ UNCHANGED <<auth_attempt, status, hshake>>
                ELSE IF b.value /\ Strip(r.cmd_result.text) # IllegalCommand
                THEN /\ status' = [success |-> PyBool(b.value), returned |-> r.cmd_result]
                     /\ cmd_result' = r.cmd_result
                     /\ authenticated' = r.ok
                     /\ success' = s
                     /\ pc' = "send_command_return"
                     /\ UNCHANGED <<auth_attempt, raised, hshake>>
                ELSE /\ authenticated' = FALSE
                     /\ cmd_result' = PyNone
                     /\ status' = [success |-> PyNone, returned |-> PyDict]
                     /\ success' = FALSE
                     /\ auth_attempt' = auth_attempt
                     /\ EnterHandshake
    /\ UNCHANGED <<inputs, threads, called, batch, chal_failed, n_auth, n_authorized>>

\* challenge_rcon, lines 82-108: one iteration of the challenge loop; after
\* the last one either the return of None through do_authentication (lines
\* 143-144) or the way on to authenticate.
challenge_rcon ==
    /\ pc = "challenge"
    /\ \E o \in ChallengeOutcomes :
         LET numeric == o.kind = "numeric"
             r == RetryAfterChallenge(ch_retry, numeric)
         IN  /\ challenge' = o.token
             /\ served' = o.token
             /\ ch_retry' = r
             /\ n_chal' = n_chal + 1
             /\ chal_failed' = (chal_failed \/ ~numeric)
             /\ IF r > 0
                THEN pc' = "challenge" /\ hs_result' = hs_result
                ELSE IF o.token = "None"
                THEN /\ pc' = "handshake_done"
                     /\ hs_result' = [challenge |-> "None", authenticated |-> TRUE]
                ELSE pc' = "authenticate" /\ hs_result' = hs_result
    /\ timeout' = "None"
    /\ transport_used' = TRUE
    /\ UNCHANGED <<inputs, threads, called, raised, batch, locals, n_hs, n_cmd, parity,
                   first_marker, first_plain, first_illegal, call, credential,
                   n_auth, n_authorized>>

\* challenge_rcon, lines 111-130, inside do_authentication, lines 141-147:
\* the authenticate call and what reaches send_command.
authenticate ==
    /\ pc = "authenticate"
    /\ \E o \in AuthOutcomes :
         LET r == AuthenticateResult(o)
             d == do_authentication(r)
         IN  /\ timeout' = r.timeout
             /\ credential' = Md5(Authentication(challenge, Password(kwargs)))
             /\ n_authorized' = IF o = "authorized" THEN n_authorized + 1 ELSE n_authorized
             /\ IF d.exc # "none"
                THEN Raise(d.exc) /\ hs_result' = hs_result
                ELSE /\ pc' = "handshake_done"
                     /\ raised' = raised
                     /\ hs_result' = [challenge |-> d.challenge,
                                      authenticated |-> d.authenticated]
    /\ n_auth' = n_auth + 1
    /\ transport_used' = TRUE
    /\ UNCHANGED <<inputs, threads, called, batch, locals, ch_retry, challenge, n_hs, n_chal,
                   served, n_cmd, parity, first_marker, first_plain, first_illegal, call, chal_failed>>

\* send_command, lines 289-298: what the executor does with the pair
\* do_authentication returned.
send_command_auth ==
    /\ pc = "handshake_done"
    /\ IF hs_result.challenge = "False"
       THEN /\ authenticated' = FALSE
            /\ auth_attempt' = auth_attempt + 1
            /\ IF auth_attempt + 1 > AuthAttemptCap
               THEN /\ status' = [success |-> PyFalse,
                                  returned |-> PyStr(CouldNotAuthenticate)]
                    /\ pc' = "send_command_return"
                    /\ raised' = raised
                    /\ LeaveHandshake
               ELSE /\ status' = status
                    /\ EnterHandshake
       ELSE /\ authenticated' = hs_result.authenticated
            /\ UNCHANGED <<auth_attempt, status>>
            /\ IF hs_result.authenticated
               THEN pc' = "exec_cmd_retry" /\ raised' = raised /\ LeaveHandshake
               ELSE EnterHandshake
    /\ UNCHANGED <<inputs, threads, called, batch, cmd_result, success, counts, timeout, transport_used>>

\* send_command, lines 300-312: the command is sent again and classified;
\* the loop goes on, or the final classification and the return.
exec_cmd_retry ==
    /\ pc = "exec_cmd_retry"
    /\ \E o \in CmdOutcomesOf(kwargs) :
         LET r == Invoke(Command.text, o)
             s == is_cmd_success(r.cmd_result)
             b == is_bad_results_11(r.cmd_result, s)
         IN  /\ timeout' = r.timeout
             /\ n_cmd' = Inc(n_cmd)
             /\ parity' = 1 - parity
             /\ call' = CallOf(Command.text, r.nargs)
             /\ IF r.raised
                THEN /\ Raise(r.exc)
                     /\ UNCHANGED <<locals, hshake>>
                ELSE /\ cmd_result' = r.cmd_result
                     /\ authenticated' = r.ok
                     /\ success' = s
                     /\ auth_attempt' = auth_attempt
                     /\ IF ~RetryDone(s, r.cmd_result)
                        THEN /\ status' = status
                             /\ IF r.ok
                                THEN pc' = "exec_cmd_retry" /\ UNCHANGED <<raised, hshake>>
                                ELSE EnterHandshake
                        ELSE IF b.raised
                        THEN /\ Raise("TypeError")
                             /\ UNCHANGED <<status, hshake>>
                        ELSE /\ status' = [success |-> PyBool(b.value),
                                           returned |-> r.cmd_result]
                             /\ pc' = "send_command_return"
                             /\ UNCHANGED <<raised, hshake>>
    /\ transport_used' = TRUE
    /\ UNCHANGED <<inputs, threads, called, batch, first_marker, first_plain, first_illegal, chal_failed,
                   n_auth, n_authorized>>

\* multi_rcon, lines 218-222: the result of send_command is stored under the
\* command, the flag is set, and the iteration goes on or ends.  The frame
\* of the send_command that returned is gone.
multi_rcon_store ==
    /\ pc = "send_command_return"
    /\ result' = [success |-> StoreSuccess(status),
                  returned |-> DictSet(result.returned, Command, status)]
    /\ IF idx < Len(commands.items)
       THEN idx' = idx + 1 /\ pc' = "send_command"
       ELSE idx' = idx /\ pc' = "done"
    /\ auth_attempt' = 0
    /\ authenticated' = FALSE
    /\ cmd_result' = PyNone
    /\ success' = FALSE
    /\ status' = [success |-> PyNone, returned |-> PyDict]
    /\ ch_retry' = 0
    /\ challenge' = "unbound"
    /\ hs_result' = NoHsResult
    /\ n_cmd' = 0
    /\ parity' = 0
    /\ first_marker' = FALSE
    /\ first_plain' = FALSE
    /\ first_illegal' = FALSE
    /\ call' = NoCall
    /\ served' = "None"
    /\ credential' = NoCredential
    /\ n_hs' = 0
    /\ n_chal' = 0
    /\ chal_failed' = FALSE
    /\ n_auth' = 0
    /\ n_authorized' = 0
    /\ UNCHANGED <<inputs, threads, called, raised, timeout, transport_used>>

Next ==
    \/ multi_rcon
    \/ send_command
    \/ exec_cmd_first
    \/ challenge_rcon
    \/ authenticate
    \/ send_command_auth
    \/ exec_cmd_retry
    \/ multi_rcon_store

Spec == Init /\ [][Next]_vars

\* The program is sequential and takes its next step whenever it has one.
FairSpec == Spec /\ WF_vars(Next)

\* ------------------------------------------------- two clients, two threads
\* Each thread runs the transport calls of a client of its own; the socket
\* default timeout is the one of the process.  A call is three steps:
\* socket.setdefaulttimeout(5), the connection made with the default timeout
\* in force at that moment, and the exit of the call.
mainvars == <<inputs, pc, raised, batch, locals, hshake, counts, transport_used, called>>

\* socket.setdefaulttimeout(5) before the remote call
SetTimeout(t) ==
    /\ spc[t].at = "idle"
    /\ \E op \in TransportOps : spc' = [spc EXCEPT ![t] = [op |-> op, at |-> "set"]]
    /\ timeout' = "5"
    /\ UNCHANGED <<mainvars, seen>>

\* the remote call connects
Connect(t) ==
    /\ spc[t].at = "set"
    /\ spc' = [spc EXCEPT ![t].at = "inflight"]
    /\ seen' = [seen EXCEPT ![t] = timeout]
    /\ UNCHANGED <<mainvars, timeout>>

\* the exit of the call: socket.setdefaulttimeout(None) after a call that
\* returned, and after every challenge call; not after a command or an
\* authenticate call that raised.
Finish(t) ==
    /\ spc[t].at = "inflight"
    /\ \E returned \in BOOLEAN :
         timeout' = IF returned \/ spc[t].op = "challenge" THEN "None" ELSE timeout
    /\ spc' = [spc EXCEPT ![t] = IdleThread]
    /\ seen' = [seen EXCEPT ![t] = "-"]
    /\ UNCHANGED mainvars

ConcInit ==
    /\ Init
    /\ commands = [type |-> "NoneType", items |-> <<>>]
    /\ retry = 1
    /\ kwargs = RequiredKeys

ConcNext ==
    \/ \E t \in Threads : SetTimeout(t)
    \/ \E t \in Threads : Connect(t)
    \/ \E t \in Threads : Finish(t)

ConcSpec == ConcInit /\ [][ConcNext]_vars

\* ----------------------------------------------------------------- claims
\* value[:11] == '[Whitelist]' for a Python value
HasBadPrefix(v) == v.kind = "str" /\ Slice(v.text, 11) = bad_results_11

Returned == pc = "send_command_return"

\* C1: send_command never returns success=true with a text whose first 11
\* characters are "[Whitelist]"; a final response with that prefix is
\* returned with success=false and the text exec_cmd delivered.
C1_NoSuccessOnWhitelist ==
    Returned =>
       /\ ~ (status.success = PyTrue /\ HasBadPrefix(status.returned))
       /\ HasBadPrefix(cmd_result) =>
             status = [success |-> PyFalse, returned |-> cmd_result]

C1_Witness ==
    /\ Returned
    /\ n_cmd >= 2
    /\ cmd_result = PyStr(WhitelistNo)
    /\ status = [success |-> PyFalse, returned |-> PyStr(WhitelistNo)]

\* C2: a command answered with exactly the challenge marker is never the
\* result of send_command: the optimistic attempt goes on into the
\* authentication loop, and the retry loop sends the command again.
C2_MarkerNeverFinal ==
    [][ /\ (pc = "exec_cmd_first" /\ first_marker') =>
              (n_hs' = 1 /\ pc' # "send_command_return"
                 /\ (pc' = "challenge" \/ raised' = "UnboundLocalError"))
        /\ (pc = "exec_cmd_retry" /\ raised' = "none"
              /\ cmd_result' = PyStr(ChallengeMarker)) => pc' = "exec_cmd_retry"
        /\ pc' = "send_command_return" =>
              status'.returned # PyStr(ChallengeMarker) ]_vars

C2_Witness ==
    /\ pc = "exec_cmd_retry"
    /\ first_marker
    /\ n_cmd >= 2
    /\ cmd_result = PyStr(ChallengeMarker)

\* C3: send_command and multi_rcon never end with an uncaught exception.
C3_NoUncaughtFault == pc # "raised"

\* C4: a command invocation that fails at the transport (exec_cmd returns
\* False, False) is classified as not successful and the executor enters or
\* stays in the authenticated retry loop.
C4_TransportFailureRejected ==
    [][ (pc \in {"exec_cmd_first", "exec_cmd_retry"} /\ cmd_result' = PyFalse) =>
           (success' = FALSE /\ pc' \in {"challenge", "exec_cmd_retry"}) ]_vars

\* C5: optimistic attempt rejected with the marker, every challenge numeric,
\* no authenticate answered "authorized": send_command returns "Could not
\* authenticate with RCON", success=false, after exactly 3 authenticate
\* calls and without sending the command again.
C5_ThreeHandshakes ==
    (Returned /\ first_marker /\ ~chal_failed /\ n_authorized = 0) =>
       /\ status = [success |-> PyFalse, returned |-> PyStr(CouldNotAuthenticate)]
       /\ n_auth = 3
       /\ n_hs = 3
       /\ n_cmd = 1

\* C6: in the retry loop the command is sent again only after a handshake
\* whose authenticate call was answered "authorized"; a handshake that
\* exhausted its challenge budget reaches the executor as a failed one.
C6_ResendOnlyAfterAuthorized ==
    /\ pc = "exec_cmd_retry" => n_authorized >= 1
    /\ (pc = "handshake_done" /\ hs_result.challenge = "None") =>
          ~hs_result.authenticated

\* C7: the first k >= 1 invocations rejected with the marker, the first
\* handshake authorized, then a text that has not the known-bad prefix:
\* send_command returns success=true with that text.
C7_AcceptedAfterRejections ==
    (Returned /\ first_marker /\ n_cmd >= 2 /\ n_auth = 1 /\ n_authorized = 1
       /\ cmd_result.kind = "str" /\ ~HasBadPrefix(cmd_result)) =>
       status = [success |-> PyTrue, returned |-> cmd_result]

\* C8: a handshake makes at most retry challenge calls; with no numeric
\* token it makes exactly retry calls and then returns None without an
\* authenticate call; a numeric token ends the challenge calls.
C8_ChallengeBudget ==
    [][ pc = "challenge" =>
          /\ n_chal' = n_chal + 1
          /\ n_chal' <= retry
          /\ challenge' \in Tokens => pc' = "authenticate"
          /\ challenge' = "None" =>
                /\ n_auth' = n_auth
                /\ IF n_chal' < retry THEN pc' = "challenge"
                   ELSE /\ pc' = "handshake_done"
                        /\ hs_result'.challenge = "None" ]_vars

C8_Witness ==
    /\ pc = "handshake_done"
    /\ hs_result.challenge = "None"
    /\ retry >= 2
    /\ n_chal = retry
    /\ n_auth = 0

\* C9: every send_command call comes to an end.
C9_SendCommandEnds ==
    [](pc = "exec_cmd_first" => <>(pc \in {"send_command_return", "raised"}))

\* C10: multi_rcon with a commands argument that is not a list returns
\* success=false with the one diagnostic entry and makes no transport call.
C10_NotAList ==
    (pc = "done" /\ commands.type # "list") =>
       /\ result.success = PyFalse
       /\ DOMAIN result.returned = {PyInt0}
       /\ result.returned[PyInt0] = PyStr(ListNotPassed)
       /\ ~transport_used
       /\ n_cmd = 0 /\ n_hs = 0 /\ n_auth = 0

C10_Witness ==
    /\ pc = "done"
    /\ commands.type = "tuple"
    /\ Len(commands.items) = 2
    /\ result.success = PyFalse

C12_AggregateTrue ==
    (pc = "done" /\ commands.type = "list" /\ Len(commands.items) > 0) =>
       result.success = PyTrue

C12_Witness ==
    /\ pc = "done"
    /\ commands.type = "list"
    /\ Len(commands.items) = 2
    /\ commands.items[1].kind = "str"
    /\ \A k \in DOMAIN result.returned : result.returned[k].success = PyFalse
    /\ result.success = PyTrue

\* C13: a client constructed without host, port or password is no usable
\* object: no call on it goes anywhere.
C13_ConstructionFails ==
    ~ (RequiredKeys \subseteq kwargs) =>
       (pc = "multi_rcon" /\ raised = "none" /\ timeout = "None")

\* C14: exec_cmd and exec_cmd_params never raise to send_command.
C14_ExecNeverRaises ==
    [][ (pc = "exec_cmd_first" \/ pc = "exec_cmd_retry") =>
           raised' \notin {"Error", "AttributeError"} ]_vars

\* C15: after every transport call the socket default timeout is None.
C15_TimeoutRestored == timeout = "None"

HasSpace(c) == \E i \in 1..Len(c) : c[i] = " "
SplitSamples ==
    { <<"s","t","a","t","u","s"," ">>, <<"s","a","y"," "," ","h","i">>,
      <<" ","x">>, <<"a"," ","b"," ","c">>, <<"a","b">> }

\* C16: the command is split at its first space into name and parameters,
\* name + " " + parameters is the command when it has a space; the remote
\* operation gets no argument when the parameters are empty and the one
\* string otherwise, on the optimistic attempt and on every retry.
C16_CallShape ==
    /\ call # NoCall =>
          LET c == Command.text
              params == IF call.args = <<>> THEN <<>> ELSE call.args[1]
          IN  /\ Len(call.args) <= 1
              /\ call.args # <<>> => call.args[1] # <<>>
              /\ ~HasSpace(call.name)
              /\ HasSpace(c) => call.name \o <<" ">> \o params = c
              /\ ~HasSpace(c) => (call.name = c /\ call.args = <<>>)
    /\ \A c \in SplitSamples :
          /\ ~HasSpace(SplitCmd(c))
          /\ HasSpace(c) => SplitCmd(c) \o <<" ">> \o SplitParams(c) = c
          /\ ~HasSpace(c) => (SplitCmd(c) = c /\ SplitParams(c) = <<>>)

C16_Witness ==
    /\ pc = "exec_cmd_retry"
    /\ n_cmd >= 2
    /\ Command = PyStr(CmdSay)
    /\ call = [name |-> <<"s","a","y">>, args |-> << <<"h","i"," ","a","l","l">> >>]

\* C17: a call of one client connects under the timeout that client
\* installed, whatever the other client does meanwhile.
C17_SessionsIndependent ==
    \A t \in Threads : spc[t].at = "inflight" => seen[t] = "5"

\* C18: the credential a handshake submits is the digest of the token of the
\* last challenge call of that same handshake, ":" and the password, and a
\* handshake submits one credential at most.
C18_CredentialFromLastChallenge ==
    /\ n_auth <= n_hs
    /\ pc = "authenticate" =>
          (served \in Tokens /\ n_chal >= 1 /\ credential = NoCredential)
    /\ credential # NoCredential =>
          /\ served \in Tokens
          /\ n_chal >= 1
          /\ credential = [md5 |-> <<served, ":", "secret">>]

C18_Witness ==
    /\ pc = "handshake_done"
    /\ n_hs = 2
    /\ n_chal = 2
    /\ credential = [md5 |-> <<"5678", ":", "secret">>]

\* C19: is_bad_results_11 turns the flag to False exactly for a text whose
\* first 11 characters are "[Whitelist]" and leaves it alone otherwise.
C19_DowngradeExactlyOnPrefix ==
    (Returned /\ cmd_result.kind = "str") =>
       status.success = PyBool(success /\ ~HasBadPrefix(cmd_result))

\* C20: the first transport call of send_command is the command; a response
\* that is neither the marker, nor a soft failure, nor Illegal Command is
\* returned with success=true after that one call, and a handshake starts
\* only after one of those three.
C20_OptimisticFirst ==
    [][ pc = "exec_cmd_first" =>
          /\ n_cmd = 0 /\ n_chal = 0 /\ n_auth = 0 /\ n_hs = 0
          /\ n_cmd' = 1
          /\ first_plain' =>
                /\ pc' = "send_command_return"
                /\ status' = [success |-> PyTrue, returned |-> cmd_result']
                /\ n_hs' = 0
          /\ n_hs' = 1 => ~first_plain' ]_vars

\* C21: in the retry loop, a re-sent command that is rejected with the
\* challenge marker makes the session unauthenticated and a handshake runs
\* before the command is sent again.
C21_RehandshakeAfterRejection ==
    [][ (pc = "exec_cmd_retry" /\ pc' # "raised"
           /\ cmd_result' = PyStr(ChallengeMarker)) =>
          (~authenticated' /\ pc' = "challenge" /\ n_hs' = Inc(n_hs)) ]_vars

\* C22: Illegal Command on the optimistic attempt and, after an authorized
\* handshake, Illegal Command again on the re-sent command: send_command
\* leaves the loop on that response and returns True with that text.
C22_IllegalCommandAccepted ==
    [][ (pc = "exec_cmd_retry" /\ first_illegal /\ n_authorized >= 1
           /\ call'.name = SplitCmd(Command.text)
           /\ pc' # "raised"
           /\ cmd_result' = PyStr(IllegalCommand)) =>
          /\ pc' = "send_command_return"
          /\ success'
          /\ status' = [success |-> PyTrue, returned |-> PyStr(IllegalCommand)] ]_vars

C22_Witness ==
    /\ pc = "send_command_return"
    /\ first_illegal
    /\ n_cmd = 2
    /\ n_hs = 1
    /\ n_authorized = 1
    /\ status = [success |-> PyTrue, returned |-> PyStr(IllegalCommand)]

====
